---- MODULE Spec2Model ----
(***************************************************************************)
(* Scene endpoints of the WWT Constellations backend (src/scenes.ts).      *)
(*                                                                         *)
(* The state is the `scenes` collection, the session store `sessions` and  *)
(* `last`, the exchange in progress: the request a handler has served and  *)
(* what it answered, until the response has reached the client.  Under     *)
(* Spec requests are served one at a time; under LikeSpec the like         *)
(* handlers are taken one await at a time, with `requests` holding the     *)
(* requests in flight.  The `handles` and `images` collections are only    *)
(* read by these endpoints and are fixed.                                  *)
(*                                                                         *)
(* Representation:                                                         *)
(*  - an optional field is <<>> when absent and <<v>> when present;        *)
(*  - `text` and `outgoing_url` are represented by their length, the only  *)
(*    property of them that the handlers read;                             *)
(*  - angles are integers in units of pi/2, roi_height_deg is in degrees   *)
(*    and roi_aspect_ratio in tenths, so that every bound the code         *)
(*    compares against is an integer;                                      *)
(*  - a scene's _id is its position in `scenes`.                           *)
(***************************************************************************)
EXTENDS Integers, Sequences, FiniteSets, TLC

VARIABLES scenes, sessions, requests, last, workload

vars == <<scenes, sessions, requests, last, workload>>

\* ------------------------------------------------------------------ bounds

\* How many scene records the collection may hold.
MaxScenes == 2

\* How far from 0 a counter of a scene may get.
MaxEvents == 2

\* How many like requests may be in flight together.
MaxInFlight == 2

\* How many scenes the collection of the home timeline holds.
MaxRanked == 12

\* ------------------------------------------------------- optional values

Absent == <<>>

Some(v) == <<v>>

Has(o) == o # <<>>

Val(o) == o[1]

\* JavaScript truthiness of an optional string given by its length:
\* undefined and "" are both falsy.
TruthyLen(o) == Has(o) /\ Val(o) > 0

\* JavaScript truthiness of an optional string.
TruthyStr(o) == Has(o) /\ Val(o) # ""

\* --------------------------------------------------------------- constants

\* 2 * Math.PI, in units of pi/2
TwoPi == 4

\* 0.5 * Math.PI, in units of pi/2
HalfPi == 1

\* Math.PI, in units of pi/2
Pi == 2

RoiHeightMin == 0

RoiHeightMax == 360

\* 0.1, in tenths
RoiAspectMin == 1

\* 10, in tenths
RoiAspectMax == 100

MaxTextLen == 5000

MaxUrlLen == 5000

\* ------------------------------------------------------------ collaborators

\* The handles collection.
Handles == { [_id |-> "H1", handle |-> "h1"], [_id |-> "H2", handle |-> "h2"] }

\* state.handles.findOne({handle: name}): the set of matching records
HandleByName(name) == { h \in Handles : h.handle = name }

\* state.handles.findOne({_id: id})
HandleById(id) == { h \in Handles : h._id = id }

\* The images collection.
Images == { "img1", "img2" }

\* state.images.findOne({_id: id}) !== null
ImageExists(id) == id \in Images

\* new ObjectId(s) accepts s (it throws for a string that is no object id)
ObjectIdParses(s) == s \in { "img1", "img2", "img9" }

\* handleIsAllowed(req, handle, cap) of handles.ts
handleIsAllowed(principal, handle, cap) == <<handle.handle, cap>> \in principal.caps

\* hasRole(req, role) of permissions.ts
hasRole(principal, role) == role \in principal.roles

\* ---------------------------------------------------------------- isAllowed

\* isAllowed(state, req, scene, "edit") throws: the owning handle is missing
OwnerMissing(scene) == HandleById(scene.handle_id) = {}

\* isAllowed(state, req, scene, "edit"), when the owning handle exists
isAllowed(principal, scene) ==
  \E h \in HandleById(scene.handle_id) : handleIsAllowed(principal, h, "editScenes")

\* ------------------------------------------------------- PATCH /scene/:id

\* PlaceValid without the upper bound of roll_rad
PlaceValidNoRollMax(place) ==
  /\ place.ra_rad >= 0 /\ place.ra_rad <= TwoPi
  /\ place.dec_rad >= -HalfPi /\ place.dec_rad <= HalfPi
  /\ place.roi_height_deg >= RoiHeightMin /\ place.roi_height_deg <= RoiHeightMax
  /\ place.roi_aspect_ratio >= RoiAspectMin /\ place.roi_aspect_ratio <= RoiAspectMax
  /\ place.roll_rad >= -Pi

\* The range checks on input.place
PlaceValid(place) ==
  /\ place.ra_rad >= 0 /\ place.ra_rad <= TwoPi
  /\ place.dec_rad >= -HalfPi /\ place.dec_rad <= HalfPi
  /\ place.roi_height_deg >= RoiHeightMin /\ place.roi_height_deg <= RoiHeightMax
  /\ place.roi_aspect_ratio >= RoiAspectMin /\ place.roi_aspect_ratio <= RoiAspectMax
  /\ place.roll_rad >= -Pi /\ place.roll_rad <= Pi

\* The branch on input.content && input.content.background_id
BackgroundTouched(input) ==
  Has(input.content) /\ TruthyStr(Val(input.content).background_id)

BackgroundId(input) == Val(Val(input.content).background_id)

\* AstropixAction that stores an association as soon as one of the two ids is set
AstropixActionEitherSet(astropix) ==
  IF astropix.publisher_id = "" /\ astropix.image_id = "" THEN "unset"
  ELSE IF astropix.publisher_id # "" \/ astropix.image_id # "" THEN "set"
  ELSE "invalid"

\* What the astropix block does with input.astropix: remove the association,
\* store it, or reject the request
AstropixAction(astropix) ==
  IF astropix.publisher_id = "" /\ astropix.image_id = "" THEN "unset"
  ELSE IF astropix.publisher_id # "" /\ astropix.image_id # "" THEN "set"
  ELSE "invalid"

\* PatchAllowed whose astropix block also asks for canEdit
PatchAllowedAstropixByEdit(principal, canEdit, input) ==
  /\ TruthyLen(input.text) => canEdit
  /\ TruthyLen(input.outgoing_url) => canEdit
  /\ Has(input.place) => canEdit
  /\ BackgroundTouched(input) => canEdit
  /\ Has(input.published) => canEdit
  /\ Has(input.astropix) => canEdit /\ hasRole(principal, "manage-astropix")

\* The value of `allowed` once every block of the handler has run
PatchAllowed(principal, canEdit, input) ==
  /\ TruthyLen(input.text) => canEdit
  /\ TruthyLen(input.outgoing_url) => canEdit
  /\ Has(input.place) => canEdit
  /\ BackgroundTouched(input) => canEdit
  /\ Has(input.published) => canEdit
  /\ Has(input.astropix) => hasRole(principal, "manage-astropix")

\* operation["$set"]
PatchSet(input) ==
  [ text |-> IF TruthyLen(input.text) THEN input.text ELSE Absent,
    outgoing_url |-> IF TruthyLen(input.outgoing_url) THEN input.outgoing_url ELSE Absent,
    place |-> input.place,
    background_id |-> IF BackgroundTouched(input) THEN Some(BackgroundId(input)) ELSE Absent,
    published |-> input.published,
    astropix |-> IF Has(input.astropix) /\ AstropixAction(Val(input.astropix)) = "set"
                 THEN input.astropix ELSE Absent ]

\* operation["$unset"]
PatchUnset(input) ==
  IF Has(input.astropix) /\ AstropixAction(Val(input.astropix)) = "unset"
  THEN { "astropix" } ELSE {}

\* update_preview
PatchUpdatesPreview(input) == Has(input.place) \/ BackgroundTouched(input)

\* The update with $set of "content" in the place of "content.background_id":
\* the content of the record is replaced by the one of the payload
ApplyUpdateWholeContent(scene, set, unset) ==
  [ scene EXCEPT
      !.text = IF Has(set.text) THEN Val(set.text) ELSE @,
      !.outgoing_url = IF Has(set.outgoing_url) THEN set.outgoing_url ELSE @,
      !.place = IF Has(set.place) THEN Val(set.place) ELSE @,
      !.content = IF Has(set.background_id)
                  THEN [ background_id |-> set.background_id, image_layers |-> Absent ]
                  ELSE @,
      !.published = IF Has(set.published) THEN Val(set.published) ELSE @,
      !.astropix = IF "astropix" \in unset THEN Absent
                   ELSE IF Has(set.astropix) THEN set.astropix ELSE @ ]

\* state.scenes.findOneAndUpdate(thisScene, operation) on the matched record
ApplyUpdate(scene, set, unset) ==
  [ scene EXCEPT
      !.text = IF Has(set.text) THEN Val(set.text) ELSE @,
      !.outgoing_url = IF Has(set.outgoing_url) THEN set.outgoing_url ELSE @,
      !.place = IF Has(set.place) THEN Val(set.place) ELSE @,
      !.content = [ @ EXCEPT !.background_id =
                      IF Has(set.background_id) THEN set.background_id ELSE @ ],
      !.published = IF Has(set.published) THEN Val(set.published) ELSE @,
      !.astropix = IF "astropix" \in unset THEN Absent
                   ELSE IF Has(set.astropix) THEN set.astropix ELSE @ ]

\* The first response the validation blocks send, in the order of the code;
\* 0 when none of them returns.  A background id that is no object id makes
\* new ObjectId throw, which the handler's catch answers with 500.
PatchValidation(input) ==
  IF TruthyLen(input.text) /\ Val(input.text) > MaxTextLen THEN 400
  ELSE IF TruthyLen(input.outgoing_url) /\ Val(input.outgoing_url) > MaxUrlLen THEN 400
  ELSE IF Has(input.place) /\ ~PlaceValid(Val(input.place)) THEN 400
  ELSE IF BackgroundTouched(input) /\ ~ObjectIdParses(BackgroundId(input)) THEN 500
  ELSE IF BackgroundTouched(input) /\ ~ImageExists(BackgroundId(input)) THEN 400
  ELSE IF Has(input.astropix) /\ AstropixAction(Val(input.astropix)) = "invalid" THEN 400
  ELSE 0

\* The handler decoding the body before it loads the scene
PatchStatusDecodeFirst(store, id, principal, input, fault) ==
  IF ~input.wellformed THEN 400
  ELSE IF id \notin DOMAIN store THEN 404
  ELSE IF OwnerMissing(store[id]) THEN 500
  ELSE IF PatchValidation(input) # 0 THEN PatchValidation(input)
  ELSE IF ~PatchAllowed(principal, isAllowed(principal, store[id]), input) THEN 403
  ELSE IF fault = "update" THEN 500
  ELSE 200

\* Whether the handler gets as far as calling isAllowed, which looks up the
\* owning handle
PatchLooksUpOwner(store, id, input) == id \in DOMAIN store /\ input.wellformed

\* The status the handler answers with
PatchStatus(store, id, principal, input, fault) ==
  IF id \notin DOMAIN store THEN 404
  ELSE IF ~input.wellformed THEN 400
  ELSE IF OwnerMissing(store[id]) THEN 500
  ELSE IF PatchValidation(input) # 0 THEN PatchValidation(input)
  ELSE IF ~PatchAllowed(principal, isAllowed(principal, store[id]), input) THEN 403
  ELSE IF fault = "update" THEN 500
  ELSE 200

\* The scenes collection after the handler has run
PatchStore(store, id, principal, input, fault) ==
  IF PatchStatus(store, id, principal, input, fault) = 200
  THEN [ store EXCEPT ![id] = ApplyUpdate(@, PatchSet(input), PatchUnset(input)) ]
  ELSE store

\* The handler calling requestPreviewCreation ahead of findOneAndUpdate
PatchPreviewBeforeWrite(store, id, principal, input, fault) ==
  PatchStatus(store, id, principal, input, "none") = 200 /\ PatchUpdatesPreview(input)

\* Whether the handler called requestPreviewCreation
PatchPreview(store, id, principal, input, fault) ==
  PatchStatus(store, id, principal, input, fault) = 200 /\ PatchUpdatesPreview(input)

\* ------------------------------------------------------------- the previewer

\* What the previewer does with a request: it answers 200, answers another
\* status, fails, or never answers
PreviewerOutcomes == { "ok", "non200", "fails", "hangs" }

\* requestPreviewCreation as `await axios.post(...)` without .catch: a
\* failure is thrown to the caller, and the caller waits for the answer
requestPreviewCreationAwaited(outcome) ==
  [ posts |-> 1, thrown |-> outcome = "fails", pending |-> outcome = "hangs",
    logged |-> outcome = "non200" ]

\* requestPreviewCreation: one axios.post whose promise nobody waits for;
\* .then logs a status other than 200 and .catch logs a failure
requestPreviewCreation(outcome) ==
  [ posts |-> 1, thrown |-> FALSE, pending |-> FALSE,
    logged |-> outcome \in { "non200", "fails" } ]

\* What the client of a PATCH sees when the handler has got to `status` and,
\* with `preview`, has called requestPreviewCreation ahead of res.json
PatchAnswer(status, preview, call) ==
  IF preview /\ call.pending THEN [ status |-> 0, sends |-> 0, posts |-> call.posts ]
  ELSE IF preview /\ call.thrown THEN [ status |-> 500, sends |-> 1, posts |-> call.posts ]
  ELSE [ status |-> status, sends |-> 1, posts |-> IF preview THEN call.posts ELSE 0 ]

\* What a creation that ended as `out` adds when, with out.preview, it calls
\* requestPreviewCreation after res.json: a throw goes to the catch block,
\* whose res.json throws as the response has been sent
CreateAnswer(out, call) ==
  IF out.preview /\ call.thrown
  THEN [ status |-> out.status, sends |-> out.sends + 1, escaped |-> TRUE,
         posts |-> call.posts ]
  ELSE [ status |-> out.status, sends |-> out.sends, escaped |-> out.escaped,
         posts |-> IF out.preview THEN call.posts ELSE 0 ]

\* ------------------------------------------------ POST /handle/:handle/scene

\* CreateAuthorized that asks for the capability of the patch handler
CreateAuthorizedByEdit(principal, handle) == handleIsAllowed(principal, handle, "editScenes")

\* handleIsAllowed(req, handle, "addScenes")
CreateAuthorized(principal, handle) == handleIsAllowed(principal, handle, "addScenes")

\* The loop over input.content.image_layers, from layer i on.  `sent` tells
\* whether a response has been sent already, `sends` counts the calls of
\* res.json so far, and `throwing` holds the positions whose image lookup
\* throws.  Express's res.json throws once a response has been sent.  The
\* result tells how the loop ends: "done" (the handler goes on), "returned"
\* (a response was sent and the handler returned) or "escaped" (an exception
\* left the handler).
RECURSIVE LayerLoop(_, _, _, _, _)
LayerLoop(layers, i, sent, sends, throwing) ==
  IF i > Len(layers) THEN [ end |-> "done", sent |-> sent, sends |-> sends, status |-> 500 ]
  ELSE IF i \in throwing THEN
    \* findOne throws; the catch block answers 500 and does not return
    IF sent THEN [ end |-> "escaped", sent |-> TRUE, sends |-> sends + 1, status |-> 500 ]
    ELSE LayerLoop(layers, i + 1, TRUE, sends + 1, throwing)
  ELSE IF ~ImageExists(layers[i].image_id) THEN
    \* res.json of the 400 throws when a response was sent before; the
    \* catch block then calls res.json again, which throws out of the handler
    IF sent THEN [ end |-> "escaped", sent |-> TRUE, sends |-> sends + 2, status |-> 500 ]
    ELSE [ end |-> "returned", sent |-> TRUE, sends |-> sends + 1, status |-> 400 ]
  ELSE LayerLoop(layers, i + 1, sent, sends, throwing)

\* new_rec with `input.published || true` in the place of `input.published ?? true`
NewSceneAlwaysPublished(handle, input) ==
  [ handle_id |-> handle._id,
    creation_date |-> "now",
    impressions |-> 0,
    likes |-> 0,
    clicks |-> 0,
    shares |-> 0,
    place |-> input.place,
    content |-> input.content,
    text |-> input.text,
    previews |-> {},
    published |-> TRUE,
    outgoing_url |-> IF TruthyLen(input.outgoing_url) THEN input.outgoing_url ELSE Absent,
    astropix |-> input.astropix ]

\* new_rec
NewScene(handle, input) ==
  [ handle_id |-> handle._id,
    creation_date |-> "now",
    impressions |-> 0,
    likes |-> 0,
    clicks |-> 0,
    shares |-> 0,
    place |-> input.place,
    content |-> input.content,
    text |-> input.text,
    previews |-> {},
    published |-> IF Has(input.published) THEN Val(input.published) ELSE TRUE,
    outgoing_url |-> IF TruthyLen(input.outgoing_url) THEN input.outgoing_url ELSE Absent,
    astropix |-> input.astropix ]

\* The try block around insertOne, entered with `loop` the way the layer loop
\* ended.  The result is what the client and the collection see.
InsertStep(loop, insertThrows) ==
  IF insertThrows THEN
    \* catch: res.json of the 500 (it throws when a response was sent before)
    [ status |-> 500, sends |-> loop.sends + 1, escaped |-> loop.sent,
      inserted |-> FALSE, preview |-> FALSE ]
  ELSE IF loop.sent THEN
    \* the record is inserted; res.json throws, and so does the one in catch
    [ status |-> 500, sends |-> loop.sends + 2, escaped |-> TRUE,
      inserted |-> TRUE, preview |-> FALSE ]
  ELSE
    [ status |-> 200, sends |-> loop.sends + 1, escaped |-> FALSE,
      inserted |-> TRUE, preview |-> TRUE ]

\* A handler that answered `status` with one res.json and returned
Answered(status) ==
  [ status |-> status, sends |-> 1, escaped |-> FALSE, inserted |-> FALSE, preview |-> FALSE ]

\* A handler left by an exception before it has sent anything
Unanswered ==
  [ status |-> 0, sends |-> 0, escaped |-> TRUE, inserted |-> FALSE, preview |-> FALSE ]

\* The whole handler: what it answers and whether it inserts new_rec.  With 0
\* in `throwing` the lookup of the handle throws, outside of any try block.
CreateOutcome(handle_name, principal, input, throwing, insertThrows) ==
  IF 0 \in throwing THEN Unanswered
  ELSE IF HandleByName(handle_name) = {} THEN Answered(404)
  ELSE LET handle == CHOOSE h \in HandleByName(handle_name) : TRUE IN
    IF ~CreateAuthorized(principal, handle) THEN Answered(403)
    ELSE IF ~input.wellformed THEN Answered(400)
    ELSE IF Has(input.astropix) /\ ~hasRole(principal, "manage-astropix") THEN Answered(403)
    ELSE IF ~Has(input.content.image_layers) THEN Answered(400)
    ELSE LET loop == LayerLoop(Val(input.content.image_layers), 1, FALSE, 0, throwing) IN
      IF loop.end = "done" THEN InsertStep(loop, insertThrows)
      ELSE [ status |-> loop.status, sends |-> loop.sends, escaped |-> loop.end = "escaped",
             inserted |-> FALSE, preview |-> FALSE ]

\* -------------------------------------------------------- sessions, events

SessionIds == { "s1", "s2" }

\* The session of a client whose session is not valid
StaleSession == "stale"

\* A session document: `created` is absent in a session that is not valid
NewSession(created) == [ created |-> created, impressions |-> {}, likes |-> {} ]

isValidSession(session) == Has(session.created)

\* The ledger's answer and the session as the call leaves it
tryAddImpressionToSession(session, id) ==
  IF id \in session.impressions
  THEN [ success |-> FALSE, session |-> session ]
  ELSE [ success |-> TRUE, session |-> [ session EXCEPT !.impressions = @ \cup { id } ] ]

tryAddLikeToSession(session, id) ==
  IF id \in session.likes
  THEN [ success |-> FALSE, session |-> session ]
  ELSE [ success |-> TRUE, session |-> [ session EXCEPT !.likes = @ \cup { id } ] ]

tryRemoveLikeFromSession(session, id) ==
  IF id \in session.likes
  THEN [ success |-> TRUE, session |-> [ session EXCEPT !.likes = @ \ { id } ] ]
  ELSE [ success |-> FALSE, session |-> session ]

\* The scene after the event has been recorded
logImpressionEvent(scene) == [ scene EXCEPT !.impressions = @ + 1 ]

logLikeEvent(scene, delta) == [ scene EXCEPT !.likes = @ + delta ]

logShareEvent(scene) == [ scene EXCEPT !.shares = @ + 1 ]

\* sceneShareTypes
sceneShareTypes == { "facebook", "linkedin", "twitter", "email", "copy" }

isSceneShareType(type) == type \in sceneShareTypes

\* What an interaction handler answers for a scene that does not exist
NoSuchScene(store, session) ==
  [ status |-> 404, success |-> FALSE, logged |-> 0, session |-> session, store |-> store ]

\* The impressions handler with the call of logImpressionEvent outside the
\* test of the ledger's answer
ImpressionOutcomeAlwaysLogs(store, session, id, fault) ==
  IF id \notin DOMAIN store THEN NoSuchScene(store, session)
  ELSE LET tried == tryAddImpressionToSession(session, id) IN
    [ status |-> 200, success |-> tried.success, logged |-> 1, session |-> tried.session,
      store |-> [ store EXCEPT ![id] = logImpressionEvent(@) ] ]

\* POST /scene/:id/impressions: the answer, how often the event was handed to
\* the log, the session as the request leaves it and the collection.  With
\* fault "log" the call that records the event throws.
ImpressionOutcome(store, session, id, fault) ==
  IF id \notin DOMAIN store THEN NoSuchScene(store, session)
  ELSE LET tried == tryAddImpressionToSession(session, id) IN
    IF tried.success /\ fault = "log"
    THEN [ status |-> 500, success |-> FALSE, logged |-> 1, session |-> tried.session,
           store |-> store ]
    ELSE [ status |-> 200, success |-> tried.success,
           logged |-> IF tried.success THEN 1 ELSE 0, session |-> tried.session,
           store |-> IF tried.success THEN [ store EXCEPT ![id] = logImpressionEvent(@) ]
                     ELSE store ]

\* POST /scene/:id/likes
LikeOutcome(store, session, id, fault) ==
  IF id \notin DOMAIN store THEN NoSuchScene(store, session)
  ELSE LET tried == tryAddLikeToSession(session, id) IN
    IF tried.success /\ fault = "log"
    THEN [ status |-> 500, success |-> FALSE, logged |-> 1, session |-> tried.session,
           store |-> store ]
    ELSE [ status |-> 200, success |-> tried.success,
           logged |-> IF tried.success THEN 1 ELSE 0, session |-> tried.session,
           store |-> IF tried.success THEN [ store EXCEPT ![id] = logLikeEvent(@, 1) ]
                     ELSE store ]

\* The DELETE handler recording the event the POST handler records
UnlikeOutcomeCountsUp(store, session, id, fault) ==
  IF id \notin DOMAIN store THEN NoSuchScene(store, session)
  ELSE LET tried == tryRemoveLikeFromSession(session, id) IN
    [ status |-> 200, success |-> tried.success,
      logged |-> IF tried.success THEN 1 ELSE 0, session |-> tried.session,
      store |-> IF tried.success THEN [ store EXCEPT ![id] = logLikeEvent(@, 1) ]
                ELSE store ]

\* DELETE /scene/:id/likes
UnlikeOutcome(store, session, id, fault) ==
  IF id \notin DOMAIN store THEN NoSuchScene(store, session)
  ELSE LET tried == tryRemoveLikeFromSession(session, id) IN
    IF tried.success /\ fault = "log"
    THEN [ status |-> 500, success |-> FALSE, logged |-> 1, session |-> tried.session,
           store |-> store ]
    ELSE [ status |-> 200, success |-> tried.success,
           logged |-> IF tried.success THEN 1 ELSE 0, session |-> tried.session,
           store |-> IF tried.success THEN [ store EXCEPT ![id] = logLikeEvent(@, -1) ]
                     ELSE store ]

\* The shares handler keeping a ledger of the scenes a session has shared
ShareOutcomeOncePerSession(store, session, id, type, fault) ==
  IF ~isSceneShareType(type)
  THEN [ status |-> 400, success |-> FALSE, logged |-> 0, session |-> session, store |-> store ]
  ELSE IF id \notin DOMAIN store THEN NoSuchScene(store, session)
  ELSE LET tried == tryAddImpressionToSession(session, id) IN
    [ status |-> 200, success |-> TRUE,
      logged |-> IF isValidSession(session) /\ tried.success THEN 1 ELSE 0,
      session |-> tried.session,
      store |-> IF isValidSession(session) /\ tried.success
                THEN [ store EXCEPT ![id] = logShareEvent(@) ] ELSE store ]

\* POST /scene/:id/shares/:type.  The body of the answer says success: true
\* whether or not the event was recorded.
ShareOutcome(store, session, id, type, fault) ==
  IF ~isSceneShareType(type)
  THEN [ status |-> 400, success |-> FALSE, logged |-> 0, session |-> session, store |-> store ]
  ELSE IF id \notin DOMAIN store THEN NoSuchScene(store, session)
  ELSE IF isValidSession(session) /\ fault = "log"
  THEN [ status |-> 500, success |-> FALSE, logged |-> 1, session |-> session, store |-> store ]
  ELSE [ status |-> 200, success |-> TRUE,
         logged |-> IF isValidSession(session) THEN 1 ELSE 0, session |-> session,
         store |-> IF isValidSession(session) THEN [ store EXCEPT ![id] = logShareEvent(@) ]
                   ELSE store ]

\* ---------------------------------------------------------------- read paths

\* sceneToPlace: whether it throws, and whether the Place it returns holds a
\* ForegroundImageSet
sceneToPlace(scene) ==
  LET layers == scene.content.image_layers
      single == Has(layers) /\ Len(Val(layers)) = 1
  IN [ thrown |-> single /\ ~ImageExists(Val(layers)[1].image_id),
       foreground |-> single /\ ImageExists(Val(layers)[1].image_id) ]

\* GET /scene/:id/place.wtml.  When sceneToPlace throws, the inner catch
\* answers 404 and goes on: res.type throws as the response has been sent,
\* and so does res.json in the outer catch.
PlaceOutcome(store, id) ==
  IF id \notin DOMAIN store
  THEN [ status |-> 404, sends |-> 1, escaped |-> FALSE, document |-> FALSE ]
  ELSE IF sceneToPlace(store[id]).thrown
  THEN [ status |-> 404, sends |-> 3, escaped |-> TRUE, document |-> FALSE ]
  ELSE [ status |-> 200, sends |-> 1, escaped |-> FALSE, document |-> TRUE ]

\* sceneToJson without the lookup of the background
sceneToJsonThrowsUnlessBackground(scene) ==
  \/ HandleById(scene.handle_id) = {}
  \/ /\ Has(scene.content.image_layers)
     /\ \E i \in DOMAIN Val(scene.content.image_layers) :
          ~ImageExists(Val(scene.content.image_layers)[i].image_id)

\* Whether sceneToJson throws for a scene: its handle, the image of a layer
\* or its background is missing
sceneToJsonThrows(scene) ==
  \/ HandleById(scene.handle_id) = {}
  \/ /\ Has(scene.content.image_layers)
     /\ \E i \in DOMAIN Val(scene.content.image_layers) :
          ~ImageExists(Val(scene.content.image_layers)[i].image_id)
  \/ TruthyStr(scene.content.background_id) /\ ~ImageExists(Val(scene.content.background_id))

\* GET /scene/:id: the status, and whether the body is the hydrated scene
SceneOutcome(store, id) ==
  IF id \notin DOMAIN store THEN [ status |-> 404, hydrated |-> FALSE ]
  ELSE IF sceneToJsonThrows(store[id]) THEN [ status |-> 500, hydrated |-> FALSE ]
  ELSE [ status |-> 200, hydrated |-> TRUE ]

\* GET /scene/:id/permissions: 404 without the scene, 500 when isAllowed
\* throws for want of the owning handle, else the answer of isAllowed as `edit`
PermissionsOutcome(store, id, principal) ==
  IF id \notin DOMAIN store THEN [ status |-> 404, edit |-> FALSE ]
  ELSE IF OwnerMissing(store[id]) THEN [ status |-> 500, edit |-> FALSE ]
  ELSE [ status |-> 200, edit |-> isAllowed(principal, store[id]) ]

page_size == 8

\* The filter of the home timeline without its test of `published`
TimelineFilterAnyPublished(store) ==
  { id \in DOMAIN store :
      /\ "home_timeline_sort_key" \in DOMAIN store[id]
      /\ store[id].home_timeline_sort_key >= 0 }

\* find({ home_timeline_sort_key: { $gte: 0 }, published: true })
TimelineFilter(store) ==
  { id \in DOMAIN store :
      /\ "home_timeline_sort_key" \in DOMAIN store[id]
      /\ store[id].home_timeline_sort_key >= 0
      /\ store[id].published = TRUE }

\* sort({ home_timeline_sort_key: 1 })
RECURSIVE SortByKey(_, _)
SortByKey(store, ids) ==
  IF ids = {} THEN <<>>
  ELSE LET first == CHOOSE x \in ids :
                      \A y \in ids :
                        store[x].home_timeline_sort_key <= store[y].home_timeline_sort_key
       IN <<first>> \o SortByKey(store, ids \ { first })

\* page_num: parseInt of the query's page when that is 0 or more, else 0.
\* An absent `page` stands for a text parseInt turns into NaN.
PageNum(page) == IF Has(page) /\ Val(page) >= 0 THEN Val(page) ELSE 0

\* skip(page_num * page_size).limit(page_size)
SkipLimit(docs, page_num) ==
  SubSeq(docs, page_num * page_size + 1,
         IF Len(docs) < page_num * page_size + page_size THEN Len(docs)
         ELSE page_num * page_size + page_size)

\* GET /scenes/home-timeline: the status and the ids of the scenes returned
HomeTimelineOutcome(store, page) ==
  LET docs == SkipLimit(SortByKey(store, TimelineFilter(store)), PageNum(page)) IN
    IF \E i \in DOMAIN docs : sceneToJsonThrows(store[docs[i]])
    THEN [ status |-> 500, results |-> <<>> ]
    ELSE [ status |-> 200, results |-> docs ]

\* The sets of scene ids nearbySceneIDs may return for `size`
nearbySceneIDs(store, size) == { ids \in SUBSET DOMAIN store : Cardinality(ids) <= size }

\* GET /scene/:id/nearby-global.  No try block surrounds this handler: when
\* the lookup of the tessellation throws (fault "throws") or sceneToJson
\* throws for one of the scenes, nothing is answered.
NearbyOutcome(store, size, nearbyIDs, fault) ==
  IF fault = "throws" THEN [ status |-> 0, sends |-> 0, escaped |-> TRUE ]
  ELSE IF fault = "missing" THEN [ status |-> 500, sends |-> 1, escaped |-> FALSE ]
  ELSE IF ~Has(size) THEN [ status |-> 400, sends |-> 1, escaped |-> FALSE ]
  ELSE IF \E id \in nearbyIDs : sceneToJsonThrows(store[id])
  THEN [ status |-> 0, sends |-> 0, escaped |-> TRUE ]
  ELSE [ status |-> 200, sends |-> 1, escaped |-> FALSE ]

\* ------------------------------------------------------------------ clients

Anon == [ caps |-> {}, roles |-> {} ]

Astro == [ caps |-> {}, roles |-> { "manage-astropix" } ]

Owner1 == [ caps |-> { <<"h1", "addScenes">>, <<"h1", "editScenes">> }, roles |-> {} ]

Owner1Astro ==
  [ caps |-> { <<"h1", "addScenes">>, <<"h1", "editScenes">> }, roles |-> { "manage-astropix" } ]

Owner2 == [ caps |-> { <<"h2", "addScenes">>, <<"h2", "editScenes">> }, roles |-> {} ]

Adder1 == [ caps |-> { <<"h1", "addScenes">> }, roles |-> {} ]

Editor1 == [ caps |-> { <<"h1", "editScenes">> }, roles |-> {} ]

MidPlace ==
  [ ra_rad |-> 2, dec_rad |-> 0, roll_rad |-> 0, roi_height_deg |-> 180, roi_aspect_ratio |-> 10 ]

\* every value on its lower bound
LoPlace ==
  [ ra_rad |-> 0, dec_rad |-> -HalfPi, roll_rad |-> -Pi,
    roi_height_deg |-> RoiHeightMin, roi_aspect_ratio |-> RoiAspectMin ]

\* every value on its upper bound
HiPlace ==
  [ ra_rad |-> TwoPi, dec_rad |-> HalfPi, roll_rad |-> Pi,
    roi_height_deg |-> RoiHeightMax, roi_aspect_ratio |-> RoiAspectMax ]

\* MidPlace with one value just outside one of its bounds
OffPlaces ==
  { [ MidPlace EXCEPT !.ra_rad = v ] : v \in { -1, TwoPi + 1 } }
  \cup { [ MidPlace EXCEPT !.dec_rad = v ] : v \in { -HalfPi - 1, HalfPi + 1 } }
  \cup { [ MidPlace EXCEPT !.roll_rad = v ] : v \in { -Pi - 1, Pi + 1 } }
  \cup { [ MidPlace EXCEPT !.roi_height_deg = v ] : v \in { RoiHeightMin - 1, RoiHeightMax + 1 } }
  \cup { [ MidPlace EXCEPT !.roi_aspect_ratio = v ] : v \in { RoiAspectMin - 1, RoiAspectMax + 1 } }

TestPlaces == { MidPlace, LoPlace, HiPlace } \cup OffPlaces

Full1 == [ publisher_id |-> "pub1", image_id |-> "ap1" ]

Full2 == [ publisher_id |-> "pub2", image_id |-> "ap2" ]

HalfPublisher == [ publisher_id |-> "pub1", image_id |-> "" ]

HalfImage == [ publisher_id |-> "", image_id |-> "ap1" ]

Cleared == [ publisher_id |-> "", image_id |-> "" ]

AstropixValues == { Full1, Full2, HalfPublisher, HalfImage, Cleared }

Layer(image_id) == [ image_id |-> image_id, opacity |-> 1 ]

\* A creation body with one layer and nothing optional
BaseCreation ==
  [ wellformed |-> TRUE,
    place |-> MidPlace,
    content |-> [ background_id |-> Absent, image_layers |-> Some(<<Layer("img1")>>) ],
    outgoing_url |-> Absent,
    text |-> 2,
    published |-> Absent,
    astropix |-> Absent ]

\* A creation body that SceneCreation.decode rejects
BadCreation == [ BaseCreation EXCEPT !.wellformed = FALSE ]

WithLayers(layers) == [ BaseCreation EXCEPT !.content.image_layers = layers ]

\* The patch body {}
NoChange ==
  [ wellformed |-> TRUE, text |-> Absent, outgoing_url |-> Absent, place |-> Absent,
    content |-> Absent, published |-> Absent, astropix |-> Absent ]

\* A patch body that ScenePatch.decode rejects
BadPatch == [ NoChange EXCEPT !.wellformed = FALSE ]

Background(o) == Some([ background_id |-> o ])

\* The requests the clients of one workload send.  A run stays within one
\* workload; each exercises some of the fields with every value that matters
\* to the handlers, so the collection stays small.
Workloads ==
  { "place", "astropix", "mixed", "text", "content", "owners", "layers",
    "impressions", "likes", "shares", "preview", "ranked" }

CreateBodies(w) ==
  CASE w = "place" -> { [ BaseCreation EXCEPT !.place = p ] : p \in TestPlaces }
    [] w = "astropix" ->
         { BaseCreation } \cup { [ BaseCreation EXCEPT !.astropix = Some(a) ] : a \in AstropixValues }
    [] w = "mixed" -> { BaseCreation }
    [] w = "text" -> { BaseCreation }
    [] w = "content" ->
         { BaseCreation, [ BaseCreation EXCEPT !.content.background_id = Some("img9") ] }
    [] w = "owners" -> { BaseCreation, BadCreation, WithLayers(Absent) }
    [] w = "layers" ->
         { WithLayers(l) : l \in { Absent, Some(<<>>), Some(<<Layer("img1")>>),
                                   Some(<<Layer("img9")>>),
                                   Some(<<Layer("img1"), Layer("img2")>>),
                                   Some(<<Layer("img1"), Layer("img9")>>) } }
         \cup { [ BaseCreation EXCEPT !.outgoing_url = Some(n) ] : n \in { 0, 1 } }
         \cup { [ BaseCreation EXCEPT !.published = Some(FALSE) ] }
    [] w = "ranked" -> {}
    [] OTHER -> { BaseCreation }

PatchBodies(w) ==
  CASE w = "place" -> { [ NoChange EXCEPT !.place = Some(p) ] : p \in TestPlaces }
    [] w = "astropix" ->
         { [ NoChange EXCEPT !.astropix = Some(a) ] : a \in AstropixValues }
         \cup { [ NoChange EXCEPT !.text = Some(0), !.astropix = Some(Full2) ],
                [ NoChange EXCEPT !.outgoing_url = Some(0), !.astropix = Some(Full2) ],
                [ NoChange EXCEPT !.content = Background(Some("")), !.astropix = Some(Full2) ] }
    [] w = "mixed" ->
         { [ NoChange EXCEPT !.text = Some(1), !.astropix = Some(Full1) ],
           [ NoChange EXCEPT !.published = Some(FALSE), !.astropix = Some(Full1) ],
           [ NoChange EXCEPT !.text = Some(1), !.astropix = Some(HalfImage) ],
           [ NoChange EXCEPT !.text = Some(MaxTextLen + 1), !.published = Some(FALSE) ],
           [ NoChange EXCEPT !.published = Some(FALSE), !.astropix = Some(Cleared) ],
           [ NoChange EXCEPT !.text = Some(1) ] }
    [] w = "text" ->
         { [ NoChange EXCEPT !.text = Some(n) ] : n \in { 0, 1, MaxTextLen, MaxTextLen + 1 } }
         \cup { [ NoChange EXCEPT !.outgoing_url = Some(n) ] : n \in { 0, 1, MaxUrlLen + 1 } }
         \cup { [ NoChange EXCEPT !.published = Some(b) ] : b \in BOOLEAN }
         \cup { NoChange, BadPatch }
    [] w = "content" ->
         { [ NoChange EXCEPT !.content = Background(o) ] :
             o \in { Absent, Some(""), Some("img2"), Some("img9"), Some("zz") } }
         \cup { [ NoChange EXCEPT !.place = Some(LoPlace) ],
                [ NoChange EXCEPT !.place = Some(LoPlace), !.content = Background(Some("img9")) ] }
    [] w = "owners" -> { [ NoChange EXCEPT !.published = Some(FALSE) ] }
    [] w = "layers" -> { [ NoChange EXCEPT !.published = Some(FALSE) ] }
    [] w = "timeline" -> { [ NoChange EXCEPT !.published = Some(b) ] : b \in BOOLEAN }
    [] w = "ranked" ->
         { [ NoChange EXCEPT !.text = Some(1) ],
           [ NoChange EXCEPT !.outgoing_url = Some(1) ],
           [ NoChange EXCEPT !.place = Some(LoPlace) ],
           [ NoChange EXCEPT !.content = Background(Some("img2")) ],
           [ NoChange EXCEPT !.published = Some(FALSE) ],
           [ NoChange EXCEPT !.astropix = Some(Full1) ],
           [ NoChange EXCEPT !.astropix = Some(Cleared) ] }
    [] w = "preview" ->
         { [ NoChange EXCEPT !.place = Some(LoPlace) ],
           [ NoChange EXCEPT !.content = Background(Some("img2")) ],
           [ NoChange EXCEPT !.text = Some(1) ] }
    [] OTHER -> {}

Principals(w) ==
  CASE w = "place" -> { Anon, Owner1 }
    [] w = "astropix" -> { Anon, Astro, Owner1, Owner1Astro }
    [] w = "mixed" -> { Anon, Astro, Owner1, Owner1Astro }
    [] w = "text" -> { Anon, Owner1, Owner2 }
    [] w = "content" -> { Anon, Owner1 }
    [] w = "owners" -> { Anon, Owner1, Owner2, Adder1, Editor1 }
    [] w = "layers" -> { Owner1 }
    [] w = "ranked" -> { Anon, Owner1Astro }
    [] OTHER -> { Owner1 }

HandleNames(w) == IF w = "owners" THEN { "h1", "h2", "nope" } ELSE { "h1" }

\* The sets of layer positions whose image lookup may throw; position 0 is
\* the lookup of the handle
Throwing(w) == IF w = "layers" THEN { {}, { 0 }, { 1 }, { 2 }, { 1, 2 } } ELSE { {} }

\* Whether insertOne may throw
InsertFaults(w) == IF w = "layers" THEN BOOLEAN ELSE { FALSE }

\* What may throw while a patch is served
PatchFaults(w) == IF w = "content" THEN { "none", "update" } ELSE { "none" }

\* The sessions whose clients send impressions, likes and shares
InteractionSessions(w) ==
  CASE w = "impressions" -> SessionIds
    [] w = "likes" -> SessionIds
    [] w = "shares" -> { "s1", StaleSession }
    [] OTHER -> {}

\* Whether the call that records an event may throw
EventFaults(w) == IF w \in { "likes", "shares" } THEN { "none", "log" } ELSE { "none" }

\* What the previewer may do with the requests of a workload
Previewer(w) == IF w = "preview" THEN PreviewerOutcomes ELSE { "ok" }

\* The ids the patch requests name
PatchIds(w) == IF w = "timeline" THEN 1..MaxRanked ELSE 1..MaxScenes

\* The ids the read requests name
ReadIds(w) == IF w = "layers" THEN 1..MaxScenes ELSE {}

\* The ids the requests for a scene name
SceneIds(w) == IF w \in { "layers", "content" } THEN 1..MaxScenes ELSE {}

\* The ids the requests for the permissions on a scene name
PermissionIds(w) == IF w \in { "text", "owners" } THEN 1..MaxScenes ELSE {}

\* The `page` of the home timeline requests
TimelinePages == { Absent, Some(-1), Some(0), Some(1), Some(2) }

\* The `size` of the nearby requests
NearbySizes == { Absent, Some(1) }

\* What may go wrong with the tessellation of a nearby request
NearbyFaults == { "none", "throws", "missing" }

\* The :type of the share requests
ShareTypes(w) == IF w = "shares" THEN { "twitter", "email", "fax" } ELSE {}

\* ---------------------------------------------------------------- behaviour

NoRequest ==
  [ op |-> "none", handle |-> "", id |-> 0, principal |-> Anon, input |-> NoChange,
    throwing |-> {}, fault |-> "none", status |-> 0, sends |-> 0, escaped |-> FALSE,
    inserted |-> FALSE, preview |-> FALSE, before |-> <<>>,
    session |-> "", type |-> "", ledger |-> NewSession(Absent), success |-> FALSE,
    logged |-> 0, lookup |-> FALSE, document |-> FALSE, page |-> Absent,
    results |-> <<>>, previewer |-> "ok", posts |-> 0, hydrated |-> FALSE,
    edit |-> FALSE ]

\* No request in flight in a slot
Idle == [ pc |-> "idle" ]

\* The ranking key of scene i of the timeline's collection: negative for the
\* first scene, none for the second, different from scene to scene and not
\* in the order of the ids for the others
RankingKey(i) == IF i = 1 THEN Some(-1) ELSE IF i = 2 THEN Absent ELSE Some((i * 5) % 13)

\* A published scene of handle h1 as new_rec makes it, with its ranking key
RankedScene(i) ==
  LET rec == NewScene(CHOOSE h \in HandleByName("h1") : TRUE, BaseCreation) IN
    IF Has(RankingKey(i)) THEN rec @@ ("home_timeline_sort_key" :> Val(RankingKey(i)))
    ELSE rec

\* The collection a workload starts from: empty, or holding one scene with
\* a ranking key
FirstScenes(w) == IF w = "ranked" THEN <<RankedScene(3)>> ELSE <<>>

\* The session store before any interaction
FreshSessions ==
  [ s \in SessionIds \cup { StaleSession } |->
      NewSession(IF s = StaleSession THEN Absent ELSE Some(1)) ]

Init ==
  /\ workload \in Workloads
  /\ scenes = FirstScenes(workload)
  /\ sessions = FreshSessions
  /\ requests = [ slot \in 1..MaxInFlight |-> Idle ]
  /\ last = NoRequest

\* POST /handle/:handle/scene
CreateScene ==
  \E handle_name \in HandleNames(workload), principal \in Principals(workload),
     input \in CreateBodies(workload), throwing \in Throwing(workload),
     insertThrows \in InsertFaults(workload), previewer \in Previewer(workload) :
    LET out == CreateOutcome(handle_name, principal, input, throwing, insertThrows)
        answer == CreateAnswer(out, requestPreviewCreation(previewer))
    IN
      /\ last = NoRequest
      /\ out.inserted => Len(scenes) < MaxScenes
      /\ scenes' = IF out.inserted
                   THEN Append(scenes,
                               NewScene(CHOOSE h \in HandleByName(handle_name) : TRUE, input))
                   ELSE scenes
      /\ last' = [ NoRequest EXCEPT
                     !.op = "create", !.handle = handle_name, !.principal = principal,
                     !.input = input, !.throwing = throwing,
                     !.fault = IF insertThrows THEN "insert" ELSE "none",
                     !.status = answer.status, !.sends = answer.sends,
                     !.escaped = answer.escaped, !.inserted = out.inserted,
                     !.preview = out.preview, !.previewer = previewer,
                     !.posts = answer.posts, !.before = scenes ]
      /\ UNCHANGED <<sessions, requests, workload>>

\* PATCH /scene/:id
PatchScene ==
  \E id \in PatchIds(workload), principal \in Principals(workload),
     input \in PatchBodies(workload), fault \in PatchFaults(workload),
     previewer \in Previewer(workload) :
    LET answer == PatchAnswer(PatchStatus(scenes, id, principal, input, fault),
                              PatchPreview(scenes, id, principal, input, fault),
                              requestPreviewCreation(previewer))
    IN
      /\ last = NoRequest
      /\ scenes' = PatchStore(scenes, id, principal, input, fault)
      /\ last' = [ NoRequest EXCEPT
                     !.op = "patch", !.id = id, !.principal = principal,
                     !.input = input, !.fault = fault,
                     !.status = answer.status,
                     !.sends = answer.sends,
                     !.previewer = previewer,
                     !.posts = answer.posts,
                     !.lookup = PatchLooksUpOwner(scenes, id, input),
                     !.preview = PatchPreview(scenes, id, principal, input, fault),
                     !.before = scenes ]
      /\ UNCHANGED <<sessions, requests, workload>>

\* The response has reached the client: the exchange is over
Close ==
  /\ last # NoRequest
  /\ last' = NoRequest
  /\ UNCHANGED <<scenes, sessions, requests, workload>>

\* How far from 0 the counters of the scenes of a collection get
CountersWithin(store, bound) ==
  \A id \in DOMAIN store :
    /\ store[id].impressions <= bound
    /\ -bound <= store[id].likes /\ store[id].likes <= bound
    /\ store[id].shares <= bound

\* The exchange of an interaction handler that ended as `out`.  The session
\* middleware stores the session of the request when the response ends.
Interaction(op, session, id, type, fault, out) ==
  /\ last = NoRequest
  /\ CountersWithin(out.store, MaxEvents)
  /\ scenes' = out.store
  /\ sessions' = [ sessions EXCEPT ![session] = out.session ]
  /\ last' = [ NoRequest EXCEPT
                 !.op = op, !.id = id, !.session = session, !.type = type,
                 !.fault = fault, !.ledger = sessions[session],
                 !.status = out.status, !.sends = 1, !.success = out.success,
                 !.logged = out.logged, !.before = scenes ]
  /\ UNCHANGED <<requests, workload>>

\* POST /scene/:id/impressions
AddImpression ==
  \E session \in InteractionSessions(workload), id \in 1..MaxScenes,
     fault \in EventFaults(workload) :
    /\ workload = "impressions"
    /\ Interaction("impression", session, id, "", fault,
                   ImpressionOutcome(scenes, sessions[session], id, fault))

\* POST /scene/:id/likes
AddLike ==
  \E session \in InteractionSessions(workload), id \in 1..MaxScenes,
     fault \in EventFaults(workload) :
    /\ workload = "likes"
    /\ Interaction("like", session, id, "", fault,
                   LikeOutcome(scenes, sessions[session], id, fault))

\* DELETE /scene/:id/likes
RemoveLike ==
  \E session \in InteractionSessions(workload), id \in 1..MaxScenes,
     fault \in EventFaults(workload) :
    /\ workload = "likes"
    /\ Interaction("unlike", session, id, "", fault,
                   UnlikeOutcome(scenes, sessions[session], id, fault))

\* POST /scene/:id/shares/:type
AddShare ==
  \E session \in InteractionSessions(workload), id \in 1..MaxScenes,
     type \in ShareTypes(workload), fault \in EventFaults(workload) :
    Interaction("share", session, id, type, fault,
                ShareOutcome(scenes, sessions[session], id, type, fault))

\* GET /scene/:id
GetScene ==
  \E id \in SceneIds(workload) :
    LET out == SceneOutcome(scenes, id) IN
      /\ last = NoRequest
      /\ last' = [ NoRequest EXCEPT
                     !.op = "get", !.id = id, !.status = out.status, !.sends = 1,
                     !.hydrated = out.hydrated, !.before = scenes ]
      /\ UNCHANGED <<scenes, sessions, requests, workload>>

\* GET /scene/:id/permissions
GetPermissions ==
  \E id \in PermissionIds(workload), principal \in Principals(workload) :
    LET out == PermissionsOutcome(scenes, id, principal) IN
      /\ last = NoRequest
      /\ last' = [ NoRequest EXCEPT
                     !.op = "permissions", !.id = id, !.principal = principal,
                     !.status = out.status, !.sends = 1, !.edit = out.edit,
                     !.before = scenes ]
      /\ UNCHANGED <<scenes, sessions, requests, workload>>

\* GET /scene/:id/place.wtml
GetPlaceWtml ==
  \E id \in ReadIds(workload) :
    LET out == PlaceOutcome(scenes, id) IN
      /\ last = NoRequest
      /\ last' = [ NoRequest EXCEPT
                     !.op = "wtml", !.id = id, !.status = out.status, !.sends = out.sends,
                     !.escaped = out.escaped, !.document = out.document, !.before = scenes ]
      /\ UNCHANGED <<scenes, sessions, requests, workload>>

\* GET /scene/:id/nearby-global
GetNearbyGlobal ==
  \E id \in ReadIds(workload), size \in NearbySizes, fault \in NearbyFaults :
    \E nearbyIDs \in nearbySceneIDs(scenes, IF Has(size) THEN Val(size) ELSE 0) :
      LET out == NearbyOutcome(scenes, size, nearbyIDs, fault) IN
        /\ last = NoRequest
        /\ last' = [ NoRequest EXCEPT
                       !.op = "nearby", !.id = id, !.fault = fault, !.status = out.status,
                       !.sends = out.sends, !.escaped = out.escaped, !.before = scenes ]
        /\ UNCHANGED <<scenes, sessions, requests, workload>>

\* GET /scenes/home-timeline
GetHomeTimeline ==
  \E page \in TimelinePages :
    LET out == HomeTimelineOutcome(scenes, page) IN
      /\ last = NoRequest
      /\ last' = [ NoRequest EXCEPT
                     !.op = "timeline", !.page = page, !.status = out.status, !.sends = 1,
                     !.results = out.results, !.before = scenes ]
      /\ UNCHANGED <<scenes, sessions, requests, workload>>

Next ==
  \/ CreateScene
  \/ PatchScene
  \/ AddImpression
  \/ AddLike
  \/ RemoveLike
  \/ AddShare
  \/ GetScene
  \/ GetPermissions
  \/ GetPlaceWtml
  \/ GetNearbyGlobal
  \/ Close

\* --------------------------------------------------------- the home timeline

\* TimelineSpec starts from a collection of ranked scenes: their owner
\* publishes and unpublishes them while clients read the timeline.
TimelineInit ==
  /\ scenes = [ i \in 1..MaxRanked |-> RankedScene(i) ]
  /\ sessions = FreshSessions
  /\ requests = [ slot \in 1..MaxInFlight |-> Idle ]
  /\ last = NoRequest
  /\ workload = "timeline"

TimelineNext == PatchScene \/ GetHomeTimeline \/ Close

TimelineSpec == TimelineInit /\ [][TimelineNext]_vars

Spec == Init /\ [][Next]_vars

\* ------------------------------------------------- like requests in flight

\* LikeSpec takes the two like handlers one await at a time, so that the
\* requests of several clients, and of one client, interleave.  It starts
\* from a collection holding one scene of handle h1.
LikeInit ==
  /\ scenes = <<NewScene(CHOOSE h \in HandleByName("h1") : TRUE, BaseCreation)>>
  /\ sessions = FreshSessions
  /\ requests = [ slot \in 1..MaxInFlight |-> Idle ]
  /\ last = NoRequest
  /\ workload = "likes"

\* A POST or DELETE /scene/:id/likes arrives.  The session middleware loads
\* the session document of the request's cookie into req.session, an object
\* of this request alone, and the handler awaits findOne.
ReceiveLike ==
  \E slot \in 1..MaxInFlight, op \in { "like", "unlike" },
     session \in SessionIds, id \in 1..MaxScenes :
    /\ requests[slot] = Idle
    /\ requests' = [ requests EXCEPT
                       ![slot] = [ pc |-> "find", op |-> op, session |-> session, id |-> id,
                                   copy |-> sessions[session] ] ]
    /\ UNCHANGED <<scenes, sessions, last, workload>>

\* findOne has answered.  Without a scene the handler answers 404; with one
\* it asks the ledger about req.session and, on true, awaits logLikeEvent.
\* On false it answers at once, and req.session has not changed.
FindScene ==
  \E slot \in 1..MaxInFlight :
    /\ requests[slot].pc = "find"
    /\ LET r == requests[slot]
           tried == IF r.op = "like" THEN tryAddLikeToSession(r.copy, r.id)
                    ELSE tryRemoveLikeFromSession(r.copy, r.id)
       IN requests' = [ requests EXCEPT
                          ![slot] = IF r.id \in DOMAIN scenes /\ tried.success
                                    THEN [ r EXCEPT !.pc = "log", !.copy = tried.session ]
                                    ELSE Idle ]
    /\ UNCHANGED <<scenes, sessions, last, workload>>

\* logLikeEvent has returned: the counter has changed, the handler answers
\* and the session middleware stores req.session as the response ends.
LogLike ==
  \E slot \in 1..MaxInFlight :
    /\ requests[slot].pc = "log"
    /\ LET r == requests[slot]
           store == [ scenes EXCEPT
                        ![r.id] = logLikeEvent(@, IF r.op = "like" THEN 1 ELSE -1) ]
       IN /\ CountersWithin(store, MaxEvents)
          /\ scenes' = store
          /\ sessions' = [ sessions EXCEPT ![r.session] = r.copy ]
    /\ requests' = [ requests EXCEPT ![slot] = Idle ]
    /\ UNCHANGED <<last, workload>>

LikeNext == ReceiveLike \/ FindScene \/ LogLike

LikeSpec == LikeInit /\ [][LikeNext]_vars

\* ------------------------------------------------------------------- claims

\* The exchange in progress is a PATCH of a scene that exists, with a body
\* that matches the schema
PatchOfExisting ==
  last.op = "patch" /\ last.id \in DOMAIN last.before /\ last.input.wellformed

\* The principal of the exchange may editScenes on the handle owning the scene
HoldsEdit ==
  \E h \in Handles : /\ h._id = last.before[last.id].handle_id
                     /\ <<h.handle, "editScenes">> \in last.principal.caps

HoldsRole == "manage-astropix" \in last.principal.roles

\* The payload carries content.background_id
CarriesBackground(input) == Has(input.content) /\ Has(Val(input.content).background_id)

\* The payload carries one of the fields that need editScenes
CarriesEditField(input) ==
  \/ Has(input.text) \/ Has(input.outgoing_url) \/ Has(input.place)
  \/ CarriesBackground(input) \/ Has(input.published)

\* The payload carries astropix and nothing else
OnlyAstropix(input) == Has(input.astropix) /\ ~CarriesEditField(input)

\* Exactly one of the two ids of an astropix value is empty
HalfSet(a) == (a.publisher_id = "") # (a.image_id = "")

\* The ranges the specification states for a place
PlaceInRanges(place) ==
  /\ 0 <= place.ra_rad /\ place.ra_rad <= 4
  /\ -1 <= place.dec_rad /\ place.dec_rad <= 1
  /\ -2 <= place.roll_rad /\ place.roll_rad <= 2
  /\ 0 <= place.roi_height_deg /\ place.roi_height_deg <= 360
  /\ 1 <= place.roi_aspect_ratio /\ place.roi_aspect_ratio <= 100

\* Every field of the payload but place passes the handler's validation, and
\* the principal holds what those fields need
RestAccepted(input) ==
  /\ Has(input.text) => Val(input.text) <= 5000
  /\ Has(input.outgoing_url) => Val(input.outgoing_url) <= 5000
  /\ CarriesBackground(input) => Val(Val(input.content).background_id) \in Images \cup { "" }
  /\ Has(input.astropix) => ~HalfSet(Val(input.astropix)) /\ HoldsRole

\* C1: a PATCH of an existing scene whose payload touches a field the
\* principal is not authorized for (an edit field without editScenes on the
\* owning handle, astropix without the role manage-astropix) is answered 403
\* and changes no field of any persisted scene, also when the payload touches
\* fields the principal is authorized for.  Stated for the payloads that pass
\* validation, which the handler answers 400 before it decides on 403.
C1_UnauthorizedPatchRejected ==
  ( /\ PatchOfExisting
    /\ last.fault = "none"
    /\ PatchValidation(last.input) = 0
    /\ \/ CarriesEditField(last.input) /\ ~HoldsEdit
       \/ Has(last.input.astropix) /\ ~HoldsRole )
  => last.status = 403 /\ scenes = last.before

\* C2: after a PATCH answered {error:false}, every field the payload carries
\* holds the payload's value (the empty string included; an astropix with
\* both ids empty means the field is gone, and an empty outgoing_url or
\* background id may be stored or gone) and every other field is as before.
C2_PatchStoresPayload ==
  (last.op = "patch" /\ last.status = 200) =>
    LET input == last.input
        old == last.before[last.id]
        new == scenes[last.id]
    IN /\ new.text = IF Has(input.text) THEN Val(input.text) ELSE old.text
       /\ IF Has(input.outgoing_url)
          THEN \/ new.outgoing_url = input.outgoing_url
               \/ Val(input.outgoing_url) = 0 /\ new.outgoing_url = Absent
          ELSE new.outgoing_url = old.outgoing_url
       /\ new.place = IF Has(input.place) THEN Val(input.place) ELSE old.place
       /\ IF CarriesBackground(input)
          THEN \/ new.content.background_id = Val(input.content).background_id
               \/ Val(input.content).background_id = Some("")
                  /\ new.content.background_id = Absent
          ELSE new.content.background_id = old.content.background_id
       /\ new.published = IF Has(input.published) THEN Val(input.published) ELSE old.published
       /\ new.astropix = IF ~Has(input.astropix) THEN old.astropix
                         ELSE IF Val(input.astropix) = Cleared THEN Absent
                         ELSE input.astropix

\* C3: a PATCH of an existing scene that touches only astropix, with both
\* ids set or both empty, is accepted exactly when the principal holds the
\* role manage-astropix, whatever its editScenes capability: without the role
\* it is answered 403 and nothing changes, with the role the write is applied.
C3_AstropixNeedsOnlyRole ==
  ( /\ PatchOfExisting
    /\ last.fault = "none"
    /\ OnlyAstropix(last.input)
    /\ ~HalfSet(Val(last.input.astropix)) )
  => IF HoldsRole
     THEN /\ last.status = 200
          /\ scenes[last.id].astropix =
               IF Val(last.input.astropix) = Cleared THEN Absent ELSE last.input.astropix
     ELSE last.status = 403 /\ scenes = last.before

\* A principal with the role and without editScenes has set a new astropix
C3_Witness ==
  /\ PatchOfExisting
  /\ OnlyAstropix(last.input)
  /\ HoldsRole /\ ~HoldsEdit
  /\ last.status = 200
  /\ scenes[last.id].astropix = last.input.astropix
  /\ last.before[last.id].astropix # last.input.astropix

\* C4: a creation under an existing handle by a principal that does not hold
\* addScenes on it is answered 403 and inserts nothing, whatever the payload;
\* a record is inserted only when the handle exists and the principal holds
\* addScenes on it.
C4_CreateNeedsAddScenes ==
  last.op = "create" =>
    /\ ( /\ last.handle \in { h.handle : h \in Handles }
         /\ <<last.handle, "addScenes">> \notin last.principal.caps )
       => last.status = 403 /\ scenes = last.before
    /\ scenes # last.before
       => /\ last.handle \in { h.handle : h \in Handles }
          /\ <<last.handle, "addScenes">> \in last.principal.caps
          /\ Len(scenes) = Len(last.before) + 1

\* A principal that may edit the handle's scenes but not add to them was refused
C4_Witness ==
  /\ last.op = "create"
  /\ <<last.handle, "editScenes">> \in last.principal.caps
  /\ <<last.handle, "addScenes">> \notin last.principal.caps
  /\ last.input.wellformed
  /\ last.status = 403
  /\ scenes = last.before

\* C5: a creation that is answered with an error (400, 403, 404 or 500) has
\* inserted no scene record and requested no preview, also when an image
\* lookup raises an error.
C5_CreateAllOrNothing ==
  (last.op = "create" /\ last.status \in { 400, 403, 404, 500 })
  => scenes = last.before /\ ~last.preview

\* C6: every persisted scene's place lies within the stated ranges.
C6_PlacesInRange == \A id \in DOMAIN scenes : PlaceInRanges(scenes[id].place)

\* C7: for a principal holding editScenes and an existing scene, a PATCH
\* whose place lies within the ranges (bounds included), the rest of the
\* payload being acceptable and the store answering, succeeds and stores
\* that place; a PATCH whose place breaks a bound is answered 400 and leaves
\* every persisted scene unchanged.
C7_PatchPlaceRanges ==
  (PatchOfExisting /\ HoldsEdit /\ Has(last.input.place)) =>
    IF PlaceInRanges(Val(last.input.place))
    THEN (RestAccepted(last.input) /\ last.fault = "none")
         => last.status = 200 /\ scenes[last.id].place = Val(last.input.place)
    ELSE last.status = 400 /\ scenes = last.before

\* A place with every value on its upper bound has replaced another one
C7_Witness ==
  /\ PatchOfExisting /\ HoldsEdit
  /\ last.input.place = Some(HiPlace)
  /\ last.status = 200
  /\ scenes[last.id].place = HiPlace
  /\ last.before[last.id].place # HiPlace

\* C8: every persisted scene has no astropix, or one whose publisher_id and
\* image_id are both non-empty.
C8_AstropixPair ==
  \A id \in DOMAIN scenes :
    \/ scenes[id].astropix = Absent
    \/ /\ Val(scenes[id].astropix).publisher_id # ""
       /\ Val(scenes[id].astropix).image_id # ""

\* C9: a PATCH of an existing scene whose astropix has exactly one id empty
\* is answered 400 and changes nothing (the background id, if any, being an
\* object id); a PATCH by a principal with the role manage-astropix that
\* carries only an astropix with both ids empty removes the field and changes
\* nothing else.
C9_AstropixHalfOrCleared ==
  PatchOfExisting =>
    /\ ( /\ Has(last.input.astropix)
         /\ HalfSet(Val(last.input.astropix))
         /\ CarriesBackground(last.input)
            => Val(Val(last.input.content).background_id) \in Images \cup { "", "img9" } )
       => last.status = 400 /\ scenes = last.before
    /\ ( /\ OnlyAstropix(last.input)
         /\ Val(last.input.astropix) = Cleared
         /\ HoldsRole
         /\ last.fault = "none" )
       => /\ last.status = 200
          /\ scenes = [ last.before EXCEPT ![last.id].astropix = Absent ]

\* An existing association was removed by a principal holding the role
C9_Witness ==
  /\ PatchOfExisting
  /\ OnlyAstropix(last.input)
  /\ Val(last.input.astropix) = Cleared
  /\ HoldsRole
  /\ Has(last.before[last.id].astropix)
  /\ last.status = 200
  /\ scenes[last.id].astropix = Absent

\* C10: a creation payload whose content.image_layers is absent or empty,
\* sent by a principal that may create under the handle, is answered 400 and
\* inserts nothing, so every inserted scene has at least one image layer.
C10_CreateNeedsLayer ==
  /\ ( /\ last.op = "create"
       /\ <<last.handle, "addScenes">> \in last.principal.caps
       /\ last.handle \in { h.handle : h \in Handles }
       /\ last.input.wellformed
       /\ Has(last.input.astropix) => HoldsRole
       /\ \/ ~Has(last.input.content.image_layers)
          \/ Val(last.input.content.image_layers) = <<>> )
     => last.status = 400 /\ scenes = last.before
  /\ \A id \in DOMAIN scenes :
       /\ Has(scenes[id].content.image_layers)
       /\ Val(scenes[id].content.image_layers) # <<>>

\* The creation in progress was sent by a principal that may create under
\* the handle, with a body that matches the schema
CreationByAuthorized ==
  /\ last.op = "create"
  /\ <<last.handle, "addScenes">> \in last.principal.caps
  /\ last.handle \in { h.handle : h \in Handles }
  /\ last.input.wellformed
  /\ Has(last.input.astropix) => HoldsRole

\* The image references a creation body attaches to the scene
CreationReferences(input) ==
  ( IF Has(input.content.image_layers)
    THEN { Val(input.content.image_layers)[i].image_id :
             i \in DOMAIN Val(input.content.image_layers) }
    ELSE {} )
  \cup ( IF Has(input.content.background_id)
         THEN { Val(input.content.background_id) }
         ELSE {} )

\* C11: whenever a creation or a patch is accepted, every image reference it
\* attaches to the scene (the image_id of each layer on creation,
\* content.background_id on creation and on patch) resolves to a record of the
\* image store; a creation carrying a reference that does not resolve is
\* answered 400 and writes nothing.
C11_ReferencesResolve ==
  /\ (last.op = "create" /\ last.inserted) => CreationReferences(last.input) \subseteq Images
  /\ ( /\ last.op = "patch" /\ last.status = 200
       /\ CarriesBackground(last.input)
       /\ Val(Val(last.input.content).background_id) # "" )
     => Val(Val(last.input.content).background_id) \in Images
  /\ (CreationByAuthorized /\ ~(CreationReferences(last.input) \subseteq Images))
     => last.status = 400 /\ scenes = last.before

\* C12: every record inserted by POST /handle/:handle/scene has impressions,
\* likes, clicks and shares equal to 0, an empty previews mapping, the id of
\* the handle named in the URL as handle_id, and published equal to the
\* payload's value, or true when the payload has none.
C12_NewRecordDefaults ==
  (last.op = "create" /\ last.inserted) =>
    /\ Len(scenes) = Len(last.before) + 1
    /\ LET rec == scenes[Len(scenes)] IN
         /\ rec.impressions = 0 /\ rec.likes = 0 /\ rec.clicks = 0 /\ rec.shares = 0
         /\ rec.previews = {}
         /\ \E h \in Handles : h.handle = last.handle /\ rec.handle_id = h._id
         /\ rec.published = ( IF last.input.published = <<>> THEN TRUE
                              ELSE last.input.published[1] )

\* A creation with published: false has been inserted as unpublished
C12_Witness ==
  /\ last.op = "create" /\ last.inserted
  /\ last.input.published = <<FALSE>>
  /\ scenes[Len(scenes)].published = FALSE
  /\ scenes[Len(scenes)].handle_id = "H1"

\* The exchange in progress is an interaction `op` with a scene that exists,
\* answered 200
Served(op) == last.op = op /\ last.id \in DOMAIN last.before /\ last.status = 200

\* By how much the exchange in progress has changed a counter of its scene
Delta(counter) == scenes[last.id][counter] - last.before[last.id][counter]

C14_LikeToggles ==
  /\ Served("like") =>
       /\ last.success = (last.id \notin last.ledger.likes)
       /\ Delta("likes") = (IF last.success THEN 1 ELSE 0)
       /\ last.id \in sessions[last.session].likes
  /\ Served("unlike") =>
       /\ last.success = (last.id \in last.ledger.likes)
       /\ Delta("likes") = (IF last.success THEN -1 ELSE 0)
       /\ last.id \notin sessions[last.session].likes

\* A true remove has taken the counter from 1 back to 0
C14_Witness ==
  /\ Served("unlike")
  /\ last.success
  /\ last.before[last.id].likes = 1
  /\ scenes[last.id].likes = 0
  /\ last.id \in last.ledger.likes

\* C16: shares are not deduplicated: every POST /scene/:id/shares/:type with
\* a valid type, an existing scene and a valid session that is answered 200
\* hands one share event to the log and adds one to the scene's share
\* counter, also when the session has shared the scene before; a request
\* whose session is not valid records nothing.
C16_SharesNotDeduplicated ==
  (Served("share") /\ last.type \in { "facebook", "linkedin", "twitter", "email", "copy" }) =>
    IF last.ledger.created # <<>>
    THEN last.logged = 1 /\ Delta("shares") = 1
    ELSE last.logged = 0 /\ Delta("shares") = 0

\* The same session has shared the same scene a second time and the counter
\* has gone from 1 to 2
C16_Witness ==
  /\ Served("share")
  /\ last.session = "s1"
  /\ last.logged = 1
  /\ last.before[last.id].shares = 1
  /\ scenes[last.id].shares = 2
  /\ \A id \in DOMAIN scenes : id # last.id => scenes[id].shares = 0

\* C15: under every interleaving of like and unlike requests, two requests
\* in flight with the same session included, the likes counter of each scene
\* is never negative and, once no request is in flight, equals the number of
\* sessions whose like list holds the scene.
C15_LikesCountSessions ==
  \A id \in DOMAIN scenes :
    /\ scenes[id].likes >= 0
    /\ (\A slot \in DOMAIN requests : requests[slot] = Idle) =>
         scenes[id].likes = Cardinality({ s \in SessionIds : id \in sessions[s].likes })

\* How many image layers a scene has
LayerCount(scene) ==
  IF scene.content.image_layers = <<>> THEN 0 ELSE Len(scene.content.image_layers[1])

\* C17: GET /scene/:id/place.wtml answers 200 with a Place document only
\* when the scene has exactly one image layer; for an existing scene with no
\* layer or with two or more it answers 404 and sends no Place document.
C17_PlaceOnlyForSingleLayer ==
  (last.op = "wtml" /\ last.id \in DOMAIN scenes) =>
    /\ (last.status = 200 \/ last.document) => LayerCount(scenes[last.id]) = 1
    /\ LayerCount(scenes[last.id]) # 1 => last.status = 404 /\ ~last.document

\* The ranking key of a scene the timeline has returned
KeyOf(id) == scenes[id].home_timeline_sort_key

\* C18: whatever patches have published and unpublished the scenes, every
\* scene GET /scenes/home-timeline returns for a page is published at that
\* time, a page holds at most 8 scenes, and they come in ascending order of
\* their ranking keys.
C18_TimelinePublishedPaged ==
  (last.op = "timeline" /\ last.status = 200) =>
    /\ \A i \in DOMAIN last.results : scenes[last.results[i]].published = TRUE
    /\ Len(last.results) <= 8
    /\ \A i, j \in DOMAIN last.results :
         i < j => KeyOf(last.results[i]) <= KeyOf(last.results[j])

\* A full page has been returned while more than 8 scenes were published
\* with a ranking key of 0 or more and another such scene was unpublished
C18_Witness ==
  /\ last.op = "timeline" /\ last.status = 200
  /\ Len(last.results) = 8
  /\ Cardinality({ id \in DOMAIN scenes :
                     /\ "home_timeline_sort_key" \in DOMAIN scenes[id]
                     /\ scenes[id].home_timeline_sort_key >= 0
                     /\ scenes[id].published }) > 8
  /\ \E id \in DOMAIN scenes :
       /\ "home_timeline_sort_key" \in DOMAIN scenes[id]
       /\ scenes[id].home_timeline_sort_key >= 0
       /\ ~scenes[id].published

\* C19: every request to a scene endpoint that fails is answered with a JSON
\* error body, and no handler lets an exception escape, also when the lookup
\* of a handle, an image, the tessellation or a scene raises an error.
C19_NoEscape ==
  last.op # "none" => ~last.escaped /\ last.status # 0

\* C20 as stated: a PATCH whose payload does not match the schema is
\* answered 400 whether or not the scene exists, and a payload that matches
\* for a scene id that does not exist is answered 404 before any
\* authorization lookup.
C20_ValidateLoadAuthorize ==
  last.op = "patch" =>
    /\ ~last.input.wellformed => last.status = 400
    /\ (last.input.wellformed /\ last.id \notin DOMAIN last.before)
         => last.status = 404 /\ ~last.lookup

\* C20, amended: PATCH /scene/:id loads the scene, then decodes the payload,
\* then authorizes: a scene id that does not exist is answered 404 whether
\* or not the payload matches the schema, a payload that does not match is
\* answered 400 when the scene exists, and both answers are given before any
\* authorization lookup; 403 is answered only after that lookup.
C20_LoadValidateAuthorize ==
  last.op = "patch" =>
    /\ last.id \notin DOMAIN last.before => last.status = 404 /\ ~last.lookup
    /\ (last.id \in DOMAIN last.before /\ ~last.input.wellformed)
         => last.status = 400 /\ ~last.lookup
    /\ last.status = 403 => last.lookup

\* A payload that does not match the schema, sent for a scene id that does
\* not exist, has been answered 404
C20_Witness ==
  /\ last.op = "patch"
  /\ last.id \notin DOMAIN last.before
  /\ ~last.input.wellformed
  /\ last.status = 404

\* The update of a payload sets place or content.background_id: the payload
\* carries a place, or a background id other than the empty string
SetsPlaceOrBackground(input) ==
  \/ input.place # <<>>
  \/ /\ input.content # <<>>
     /\ input.content[1].background_id # <<>>
     /\ input.content[1].background_id[1] # ""

\* C21: a PATCH requests a preview of the scene exactly when its write was
\* issued without error and the update sets place or content.background_id;
\* a patch touching only text, outgoing_url, published or astropix requests
\* none, nor does any patch answered 400, 403, 404 or 500, a patch whose
\* write throws included: the request is not made before the write.
C21_PreviewAfterWrite ==
  last.op = "patch" =>
    /\ last.preview = (last.status = 200 /\ SetsPlaceOrBackground(last.input))
    /\ last.status \in { 400, 403, 404, 500 } => ~last.preview
    /\ last.fault = "update" => ~last.preview

\* A patch of the background has been written and has requested a preview
C21_Witness ==
  /\ last.op = "patch" /\ last.status = 200 /\ last.preview
  /\ last.input.place = <<>>
  /\ scenes[last.id].content.background_id = <<"img2">>
  /\ last.before[last.id].content.background_id # <<"img2">>

\* C22: what a creation or a patch answers and what it leaves in the
\* collection do not depend on the previewer: whether the preview request is
\* answered 200, answered with another status, fails or is never answered,
\* a request that asks for a preview is answered without error and its write
\* is in the collection, and the previewer is asked once, never again.
C22_PreviewDecoupled ==
  /\ (last.op = "patch" /\ last.preview) =>
       /\ last.status = 200
       /\ last.posts = 1
       /\ scenes = PatchStore(last.before, last.id, last.principal, last.input, "none")
  /\ (last.op = "create" /\ last.preview) =>
       /\ last.status = 200 /\ ~last.escaped /\ last.sends = 1
       /\ last.posts = 1
       /\ Len(scenes) = Len(last.before) + 1
  /\ (last.op \in { "patch", "create" } /\ ~last.preview) => last.posts = 0

\* A patch of the place has been written and answered 200 although the
\* preview request failed
C22_Witness ==
  /\ last.op = "patch" /\ last.preview
  /\ last.previewer = "fails"
  /\ last.status = 200
  /\ last.input.place # <<>>
  /\ scenes[last.id].place = last.input.place[1]
  /\ last.before[last.id].place # last.input.place[1]

\* A document a scene refers to is missing from its store
ReferenceMissing(scene) ==
  \/ scene.handle_id \notin { h._id : h \in Handles }
  \/ \E i \in 1..LayerCount(scene) : scene.content.image_layers[1][i].image_id \notin Images
  \/ /\ scene.content.background_id # <<>>
     /\ scene.content.background_id[1] \notin Images \cup { "" }

\* C23: hydration is all or nothing: when the handle of a scene, the image
\* of one of its layers or its background image is missing, GET /scene/:id
\* answers 500 with the generic error body and none of the scene's fields;
\* the hydrated scene is returned only when every document it refers to was
\* found.
C23_HydrationAllOrNothing ==
  (last.op = "get" /\ last.id \in DOMAIN scenes) =>
    /\ ReferenceMissing(scenes[last.id]) => last.status = 500 /\ ~last.hydrated
    /\ last.hydrated => ~ReferenceMissing(scenes[last.id]) /\ last.status = 200
    /\ last.status \in { 200, 500 }

\* A scene whose layer resolves and whose background does not has been
\* answered 500
C23_Witness ==
  /\ last.op = "get" /\ last.id \in DOMAIN scenes
  /\ last.status = 500 /\ ~last.hydrated
  /\ scenes[last.id].content.background_id = <<"img9">>
  /\ \A i \in 1..LayerCount(scenes[last.id]) :
       scenes[last.id].content.image_layers[1][i].image_id \in Images

\* C24: every request a handler serves gets one response: no handler sends
\* a status and body after it has sent one, on any path, the creation whose
\* image lookup raises an error and the place.wtml whose projection fails
\* included.
C24_OneResponse ==
  last.op # "none" => last.sends <= 1

\* The fields of a scene no patch may change
FrameFields ==
  { "handle_id", "creation_date", "impressions", "likes", "clicks", "shares", "previews",
    "home_timeline_sort_key" }

\* C25: no PATCH, accepted or rejected, changes a scene's handle_id,
\* creation_date, impressions, likes, clicks, shares, previews,
\* content.image_layers or home_timeline_sort_key, or adds or removes a
\* scene: of the scene it names only text, outgoing_url, place,
\* content.background_id, published and astropix may differ afterwards, and
\* every other scene is as before.
C25_PatchFrame ==
  last.op = "patch" =>
    /\ DOMAIN scenes = DOMAIN last.before
    /\ \A id \in DOMAIN scenes :
         LET old == last.before[id]
             new == scenes[id]
         IN /\ id # last.id => new = old
            /\ DOMAIN new = DOMAIN old
            /\ \A f \in FrameFields \cap DOMAIN old : new[f] = old[f]
            /\ new.content.image_layers = old.content.image_layers

\* A patch of the background of a ranked scene has been written; the scene
\* still has its layer and its ranking key
C25_Witness ==
  /\ last.op = "patch" /\ last.status = 200
  /\ scenes[last.id].content.background_id = <<"img2">>
  /\ last.before[last.id].content.background_id = <<>>
  /\ "home_timeline_sort_key" \in DOMAIN scenes[last.id]
  /\ scenes[last.id].home_timeline_sort_key = 2
  /\ scenes[last.id].content.image_layers # <<>>

\* Payloads that pass validation and carry fields that need editScenes, and
\* no other
EditOnlyPatches ==
  { input \in
      { [ NoChange EXCEPT !.text = Some(n) ] : n \in { 0, 1 } }
      \cup { [ NoChange EXCEPT !.outgoing_url = Some(n) ] : n \in { 0, 1 } }
      \cup { [ NoChange EXCEPT !.published = Some(b) ] : b \in BOOLEAN }
      \cup { [ NoChange EXCEPT !.place = Some(LoPlace) ] }
      \cup { [ NoChange EXCEPT !.content = Background(o) ] : o \in { Some(""), Some("img2") } } :
      CarriesEditField(input) /\ ~Has(input.astropix) /\ PatchValidation(input) = 0 }

\* C26: when GET /scene/:id/permissions answers for a scene, `edit` is true
\* if and only if a valid PATCH of that scene by the same principal, in the
\* same state, carrying only fields that need editScenes, is accepted
\* rather than answered 403.
C26_EditMeansPatchAccepted ==
  (last.op = "permissions" /\ last.status = 200) =>
    \A input \in EditOnlyPatches :
      last.edit <=> PatchStatus(scenes, last.id, last.principal, input, "none") # 403

\* C27: when POST or DELETE /scene/:id/likes is answered with an error (404
\* for want of the scene, 500 as the like event could not be recorded), the
\* like list of the session is what it was before the request, and so is the
\* like counter of every scene.
C27_FailedLikeLeavesSession ==
  (last.op \in { "like", "unlike" } /\ last.status \in { 404, 500 }) =>
    /\ sessions[last.session].likes = last.ledger.likes
    /\ scenes = last.before

====
